---- MODULE Spec2Model ----
(***************************************************************************)
(* Model of the authentication subsystem of appdoki-be:                    *)
(*   app/auth.go               Login, generateStateOauthCookie, GetURL,    *)
(*                             Token (the callback flow)                   *)
(*   app/auth_router.go        the routes and which of them are gated      *)
(*   app/repositories/users.go FindOrCreateUser (one SQL transaction)      *)
(* Every HTTP request is served by its own worker (net/http goroutine);    *)
(* the workers share the users table and nothing else.  Each handler is    *)
(* split at its blocking calls, so that the workers interleave there.      *)
(***************************************************************************)
EXTENDS Naturals, Sequences, FiniteSets, TLC

\* ------------------------------------------------------------------ bounds
MaxReqs == 2          \* request workers; each serves one request
MaxStateVals == 1     \* distinct values rand.Read may produce for a state
MaxLogins == 2        \* Login attempts (caps the history of issued states)

Procs == 1..MaxReqs
StateVals == 1..MaxStateVals
Browsers == {"b1"}
Emails == {"a", "b"}

\* --------------------------------------------------------------- the data
\* The identity tokens the provider may hand out.  sig stands for everything
\* verifier.Verify checks (signature, issuer, audience, expiry); wf tells
\* whether idToken.Claims can decode the payload.
Tokens ==
  { [sig |-> "good", email |-> "a", name |-> "n1", sub |-> "s1", wf |-> TRUE],
    [sig |-> "good", email |-> "a", name |-> "n2", sub |-> "s2", wf |-> TRUE],
    [sig |-> "good", email |-> "b", name |-> "n1", sub |-> "s1", wf |-> TRUE],
    [sig |-> "bad",  email |-> "a", name |-> "n1", sub |-> "s1", wf |-> TRUE],
    [sig |-> "good", email |-> "a", name |-> "n1", sub |-> "s1", wf |-> FALSE] }

NoToken == [sig |-> "none", email |-> "", name |-> "", sub |-> "", wf |-> FALSE]

\* the `code` query parameter: absent (Query().Get returns "") or present
Codes == {"", "good"}

\* repositories.User as stored (INSERT INTO users (name, email, oidc_userid))
NilUser == [id |-> 0, email |-> "", name |-> "", sub |-> ""]

\* what a SELECT id, name, email scans into a fresh &User{}
Scanned(row) == [id |-> row.id, email |-> row.email, name |-> row.name, sub |-> ""]

NoReq == [route |-> "", browser |-> "", qstate |-> {}, cookie |-> {},
          code |-> "", cred |-> NoToken]

NoLocal == [raw |-> NoToken, claims |-> NoToken, txOpen |-> FALSE,
            pending |-> NilUser, user |-> NilUser, err |-> "nil", existed |-> NilUser]

\* ------------------------------------------------------------ responses
\* status and body of one response; setCookie is its Set-Cookie: oauthstate
Response(status, kind, token, user, state, setCookie) ==
  [status |-> status, kind |-> kind, token |-> token, user |-> user,
   state |-> state, setCookie |-> setCookie]

NoResponse == Response("", "", NoToken, NilUser, {}, {})

respondInternalError == Response("internal", "Error", NoToken, NilUser, {}, {})
respondUnauthorized == Response("unauthorized", "Error", NoToken, NilUser, {}, {})

VARIABLES
  users,      \* committed rows of the users table
  nextId,     \* the id sequence of the users table
  cookie,     \* browser -> its oauthstate cookie, {} when it has none
  lastLogin,  \* browser -> the response of its latest GET /auth/login
  issued,     \* the state values the Login attempts have generated, in order
  pc,         \* worker -> where its handler stands
  req,        \* worker -> the request it serves
  loc,        \* worker -> the handler's local variables and its transaction
  resp,       \* worker -> the responses written to its ResponseWriter
  steps,      \* worker -> the calls its handler has made so far (history)
  cancelled,  \* worker -> its request context is cancelled
  wrote       \* worker -> rows its transaction committed (history)

vars == <<users, nextId, cookie, lastLogin, issued, pc, req, loc, resp, steps, cancelled, wrote>>

Init ==
  /\ users = {}
  /\ nextId = 1
  /\ cookie = [b \in Browsers |-> {}]
  /\ lastLogin = [b \in Browsers |-> NoResponse]
  /\ issued = <<>>
  /\ pc = [p \in Procs |-> "idle"]
  /\ req = [p \in Procs |-> NoReq]
  /\ loc = [p \in Procs |-> NoLocal]
  /\ resp = [p \in Procs |-> <<>>]
  /\ steps = [p \in Procs |-> <<>>]
  /\ cancelled = [p \in Procs |-> FALSE]
  /\ wrote = [p \in Procs |-> {}]

\* ------------------------------------------------------- small helpers
Step(p, name) == steps' = [steps EXCEPT ![p] = Append(@, name)]
Respond(p, r) == resp' = [resp EXCEPT ![p] = Append(@, r)]
Goto(p, l) == pc' = [pc EXCEPT ![p] = l]

\* the caller goes away: net/http cancels r.Context() of a request in flight
Cancel(p) ==
  /\ pc[p] \notin {"idle", "done"}
  /\ ~cancelled[p]
  /\ cancelled' = [cancelled EXCEPT ![p] = TRUE]
  /\ UNCHANGED <<users, nextId, cookie, lastLogin, issued, pc, req, loc, resp, steps, wrote>>

\* generateStateOauthCookie with the http.SetCookie call left out
generateStateOauthCookieUnset(s) == [state |-> {s}, setCookie |-> {}]

\* ------------------------------------------------ GET /auth/login: Login
\* generateStateOauthCookie: 16 random bytes, base64, set as the oauthstate
\* cookie on the response; the value is returned to Login.  rand.Read keeps no
\* record of what it gave before: s is any value of StateVals.
generateStateOauthCookie(s) == [state |-> {s}, setCookie |-> {s}]

\* Login has no blocking call: cookie, consent URL and redirect in one step,
\* so no worker is kept busy.  The browser keeps the cookie of the response
\* and follows the redirect.
Login(b) ==
  /\ Len(issued) < MaxLogins
  /\ \E s \in StateVals :
       LET g == generateStateOauthCookie(s)
           r == Response("redirect", "URL", NoToken, NilUser, g.state, g.setCookie) IN
       /\ lastLogin' = [lastLogin EXCEPT ![b] = r]
       /\ cookie' = [cookie EXCEPT ![b] = r.setCookie]
       /\ issued' = Append(issued, s)
  /\ UNCHANGED <<users, nextId, pc, req, loc, resp, steps, cancelled, wrote>>

\* --------------------------- UsersRepository.FindOrCreateUser (users.go)
\* The transaction runs at PostgreSQL's default READ COMMITTED level: a
\* statement sees the committed rows and the transaction's own write.
userData(p) == loc[p].claims

Visible(p, email) ==
  {r \in users : r.email = email} \cup
  (IF loc[p].pending.email = email /\ loc[p].pending # NilUser THEN {loc[p].pending} ELSE {})

\* the users table's uniqueness constraint on email: a committed row with the
\* email makes the INSERT fail, an uncommitted one of another open transaction
\* makes it wait for that transaction to end
UniqueViolation(email) == \E r \in users : r.email = email

InsertWaits(p, email) ==
  \E q \in Procs \ {p} : loc[q].txOpen /\ loc[q].pending # NilUser /\ loc[q].pending.email = email

\* A database call made with a cancelled ctx returns ctx.Err() and does
\* nothing.  (Any other failure of the store takes the handler down the same
\* paths, so cancellation is the one failure that is injected.)
CtxErr(p) == IF cancelled[p] THEN "canceled" ELSE "nil"

\* Return with the `defer tx.Rollback()` left out: a return that is not the
\* one after Commit leaves the transaction open, its write still pending
ReturnNoRollback(p, user, err) ==
  /\ loc' = [loc EXCEPT ![p] = [@ EXCEPT !.user = user, !.err = err]]
  /\ Goto(p, "respond")
  /\ UNCHANGED resp

\* return (user, err) from FindOrCreateUser: the deferred tx.Rollback() closes
\* the transaction and drops its uncommitted write; control is back in the
\* calling handler, which has not answered yet
Return(p, user, err) ==
  /\ loc' = [loc EXCEPT ![p] = [@ EXCEPT !.txOpen = FALSE,
                                         !.pending = NilUser, !.user = user, !.err = err]]
  /\ Goto(p, "respond")
  /\ UNCHANGED resp

\* tx, err := r.db.BeginTxx(ctx, nil)
FocuBegin(p) ==
  /\ pc[p] = "begin"
  /\ steps' = [steps EXCEPT ![p] = @ \o <<"FindOrCreateUser", "BeginTxx">>]
  /\ LET err == CtxErr(p)
           old == {r \in users : r.email = userData(p).email} IN
       IF err # "nil"
         THEN Return(p, NilUser, err)
         ELSE /\ loc' = [loc EXCEPT ![p] = [@ EXCEPT !.txOpen = TRUE,
                           !.existed = IF old = {} THEN NilUser ELSE CHOOSE r \in old : TRUE]]
              /\ Goto(p, "select")
              /\ UNCHANGED resp
  /\ UNCHANGED <<users, nextId, cookie, lastLogin, issued, req, cancelled, wrote>>

\* the err of the lookup: ctx.Err() of a cancelled context, sql.ErrNoRows
\* when no row has the email, nil when one has
LookupErr(p, rows) ==
  IF cancelled[p] THEN "canceled" ELSE IF rows = {} THEN "norows" ELSE "nil"

\* FocuSelect as an upsert would do it: the record found takes the incoming
\* name and subject
FocuSelectOverwrites(p) ==
  /\ pc[p] = "select"
  /\ Step(p, "Select")
  /\ LET err == CtxErr(p)
         d == userData(p)
         rows == Visible(p, d.email) IN
       IF err = "nil" /\ rows # {}
         THEN LET old == CHOOSE r \in rows : TRUE
                  new == [old EXCEPT !.name = d.name, !.sub = d.sub] IN
              /\ users' = (users \ {old}) \cup {new}
              /\ Return(p, Scanned(new), "nil")
         ELSE /\ loc' = [loc EXCEPT ![p] = [@ EXCEPT !.err = LookupErr(p, rows)]]
              /\ Goto(p, "insert")
              /\ UNCHANGED <<users, resp>>
  /\ UNCHANGED <<nextId, cookie, lastLogin, issued, req, cancelled, wrote>>

\* err = tx.GetContext(ctx, user, selectStmt, userData.Email)
\* if err == nil { return user, nil }    -- every error falls through to the INSERT
FocuSelect(p) ==
  /\ pc[p] = "select"
  /\ Step(p, "Select")
  /\ LET err == CtxErr(p)
           rows == Visible(p, userData(p).email) IN
       IF err = "nil" /\ rows # {}
         THEN Return(p, Scanned(CHOOSE r \in rows : TRUE), "nil")
         ELSE /\ loc' = [loc EXCEPT ![p] = [@ EXCEPT !.err = LookupErr(p, rows)]]
              /\ Goto(p, "insert")
              /\ UNCHANGED resp
  /\ UNCHANGED <<users, nextId, cookie, lastLogin, issued, req, cancelled, wrote>>

\* FocuInsert over a driver whose Result.RowsAffected() may return an error:
\* the branch of lines 103-108 is taken with rows = 0 and the call returns
\* (nil, nil), the deferred Rollback dropping the row just inserted
FocuInsertRowsErr(p) ==
  /\ pc[p] = "insert"
  /\ Step(p, "Insert")
  /\ LET d == userData(p)
         err == IF cancelled[p] THEN "canceled"
                ELSE IF UniqueViolation(d.email) THEN "unique"
                ELSE "nil" IN
       IF err # "nil"
         THEN Return(p, NilUser, err) /\ UNCHANGED nextId
         ELSE /\ ~InsertWaits(p, d.email)
              /\ nextId' = nextId + 1
              /\ \/ Return(p, NilUser, "nil")
                 \/ /\ loc' = [loc EXCEPT ![p] = [@ EXCEPT !.pending =
                              [id |-> nextId, email |-> d.email, name |-> d.name, sub |-> d.sub]]]
                    /\ Goto(p, "reselect")
                    /\ UNCHANGED resp
  /\ UNCHANGED <<users, cookie, lastLogin, issued, req, cancelled, wrote>>

\* res, err := tx.ExecContext(ctx, insertStmt, Name, Email, OIDCUserId)
\* if err != nil { return nil, parseError(err) }
\* if rows, err := res.RowsAffected(); err != nil { ... }: the store is
\* PostgreSQL (docker-compose.yml), whose drivers answer RowsAffected from the
\* command tag and return no error, so the branch is never taken
FocuInsert(p) ==
  /\ pc[p] = "insert"
  /\ Step(p, "Insert")
  /\ LET d == userData(p)
           err == IF cancelled[p] THEN "canceled"
                  ELSE IF UniqueViolation(d.email) THEN "unique"
                  ELSE "nil" IN
       IF err # "nil"
         THEN Return(p, NilUser, err) /\ UNCHANGED nextId
         ELSE /\ ~InsertWaits(p, d.email)
              /\ loc' = [loc EXCEPT ![p] = [@ EXCEPT !.pending =
                           [id |-> nextId, email |-> d.email, name |-> d.name, sub |-> d.sub]]]
              /\ nextId' = nextId + 1
              /\ Goto(p, "reselect")
              /\ UNCHANGED resp
  /\ UNCHANGED <<users, cookie, lastLogin, issued, req, cancelled, wrote>>

\* FocuReselect with the WHERE email = $1 left off the second SELECT: any row
\* the transaction sees is read back
FocuReselectAnyRow(p) ==
  /\ pc[p] = "reselect"
  /\ Step(p, "Reselect")
  /\ LET err == CtxErr(p)
         rows == users \cup {loc[p].pending} IN
       IF err # "nil"
         THEN Return(p, NilUser, err)
         ELSE \E r \in rows :
                /\ loc' = [loc EXCEPT ![p] = [@ EXCEPT !.user = Scanned(r)]]
                /\ Goto(p, "commit")
                /\ UNCHANGED resp
  /\ UNCHANGED <<users, nextId, cookie, lastLogin, issued, req, cancelled, wrote>>

\* err = tx.GetContext(ctx, user, selectStmt, userData.Email)
\* if err != nil { return nil, parseError(err) }
FocuReselect(p) ==
  /\ pc[p] = "reselect"
  /\ Step(p, "Reselect")
  /\ LET err == CtxErr(p)
           rows == Visible(p, userData(p).email) IN
       IF err # "nil"
         THEN Return(p, NilUser, err)
         ELSE /\ loc' = [loc EXCEPT ![p] = [@ EXCEPT !.user = Scanned(CHOOSE r \in rows : TRUE)]]
              /\ Goto(p, "commit")
              /\ UNCHANGED resp
  /\ UNCHANGED <<users, nextId, cookie, lastLogin, issued, req, cancelled, wrote>>

\* FocuCommit with the tx.Commit() left out: the deferred Rollback undoes the
\* INSERT and the user read back is returned all the same
FocuCommitSkipped(p) ==
  /\ pc[p] = "commit"
  /\ Step(p, "Commit")
  /\ Return(p, IF cancelled[p] THEN NilUser ELSE loc[p].user, CtxErr(p))
  /\ UNCHANGED <<users, wrote, nextId, cookie, lastLogin, issued, req, cancelled>>

\* if err := tx.Commit(); err != nil { return nil, parseError(err) }
\* return user, nil
FocuCommit(p) ==
  /\ pc[p] = "commit"
  /\ Step(p, "Commit")
  /\ LET err == CtxErr(p) IN
       IF err # "nil"
         THEN Return(p, NilUser, err) /\ UNCHANGED <<users, wrote>>
         ELSE /\ users' = users \cup {loc[p].pending}
              /\ wrote' = [wrote EXCEPT ![p] = @ \cup {loc[p].pending}]
              /\ Return(p, loc[p].user, "nil")
  /\ UNCHANGED <<nextId, cookie, lastLogin, issued, req, cancelled>>

FindOrCreateUser(p) ==
  \/ FocuBegin(p)
  \/ FocuSelect(p)
  \/ FocuInsert(p)
  \/ FocuReselect(p)
  \/ FocuCommit(p)

\* ------------------------------- the callback flow: AuthHandler.Token
\* GoogleOauth.Exchange(context.Background(), code): the provider redeems a
\* code at most when one is presented, and may fail for reasons of its own
ExchangeOk(code, providerUp) == code # "" /\ providerUp

\* verifier.Verify: signature, issuer, audience and expiry all hold, and the
\* provider's signing keys are at hand (cached, or fetched with success)
VerifyOk(raw, keysOk) == raw.sig = "good" /\ keysOk

\* GET /auth/google/callback?code=..&state=..; the browser sends its cookie.
\* The callback flow of auth.go is Token (the router names the handler of the
\* route Callback).
\* code := r.URL.Query().Get("code") is all the handler reads of the request.
CallbackStart(p) ==
  /\ pc[p] = "idle"
  /\ \E b \in Browsers, code \in Codes, q \in {{}} \cup {{s} : s \in StateVals} :
       req' = [req EXCEPT ![p] = [NoReq EXCEPT !.route = "/auth/google/callback",
                 !.browser = b, !.qstate = q, !.cookie = cookie[b], !.code = code]]
  /\ Step(p, "Token")
  /\ Goto(p, "exchange")
  /\ UNCHANGED <<users, nextId, cookie, lastLogin, issued, loc, resp, cancelled, wrote>>

\* lines 67-77: token, err := Exchange(..); rawIDToken, ok := token.Extra("id_token")
TokExchange(p) ==
  /\ pc[p] = "exchange"
  /\ \E providerUp \in BOOLEAN, idt \in Tokens \cup {NoToken} :
       IF ~ExchangeOk(req[p].code, providerUp)
         THEN /\ Step(p, "Exchange")
              /\ Respond(p, respondInternalError)
              /\ Goto(p, "done")
              /\ UNCHANGED loc
         ELSE /\ steps' = [steps EXCEPT ![p] = @ \o <<"Exchange", "Extra">>]
              /\ IF idt = NoToken
                   THEN Respond(p, respondInternalError) /\ Goto(p, "done") /\ UNCHANGED loc
                   ELSE /\ loc' = [loc EXCEPT ![p] = [@ EXCEPT !.raw = idt]]
                        /\ Goto(p, "verify")
                        /\ UNCHANGED resp
  /\ UNCHANGED <<users, nextId, cookie, lastLogin, issued, req, cancelled, wrote>>

\* TokVerify with the return after the Claims error left out: the error is
\* answered and the handler goes on to FindOrCreateUser
TokVerifyFallsThrough(p) ==
  /\ pc[p] = "verify"
  /\ \E keysOk \in BOOLEAN :
       IF ~VerifyOk(loc[p].raw, keysOk)
         THEN /\ Step(p, "Verify")
              /\ Respond(p, respondInternalError)
              /\ Goto(p, "done")
              /\ UNCHANGED loc
         ELSE /\ steps' = [steps EXCEPT ![p] = @ \o <<"Verify", "Claims">>]
              /\ loc' = [loc EXCEPT ![p] = [@ EXCEPT !.claims = loc[p].raw]]
              /\ Goto(p, "begin")
              /\ IF ~loc[p].raw.wf THEN Respond(p, respondInternalError) ELSE UNCHANGED resp
  /\ UNCHANGED <<users, nextId, cookie, lastLogin, issued, req, cancelled, wrote>>

\* lines 79-97: idToken, err := verifier.Verify(r.Context(), rawIDToken);
\* idToken.Claims(&idTokenClaims)
TokVerify(p) ==
  /\ pc[p] = "verify"
  /\ \E keysOk \in BOOLEAN :
       IF ~VerifyOk(loc[p].raw, keysOk)
         THEN /\ Step(p, "Verify")
              /\ Respond(p, respondInternalError)
              /\ Goto(p, "done")
              /\ UNCHANGED loc
         ELSE /\ steps' = [steps EXCEPT ![p] = @ \o <<"Verify", "Claims">>]
              /\ IF ~loc[p].raw.wf
                   THEN Respond(p, respondInternalError) /\ Goto(p, "done") /\ UNCHANGED loc
                   ELSE /\ loc' = [loc EXCEPT ![p] = [@ EXCEPT !.claims = loc[p].raw]]
                        /\ Goto(p, "begin")
                        /\ UNCHANGED resp
  /\ UNCHANGED <<users, nextId, cookie, lastLogin, issued, req, cancelled, wrote>>

\* lines 105-114: if err != nil { respondInternalError(w); return }
\* respondJSON(w, struct{ Token string }{ Token: rawIDToken }, http.StatusOK)
TokRespond(p) ==
  /\ pc[p] = "respond"
  /\ req[p].route = "/auth/google/callback"
  /\ Respond(p, IF loc[p].err # "nil"
                  THEN respondInternalError
                  ELSE Response("ok", "Token", loc[p].raw, NilUser, {}, {}))
  /\ Goto(p, "done")
  /\ UNCHANGED <<users, nextId, cookie, lastLogin, issued, req, loc, steps, cancelled, wrote>>

Token(p) ==
  \/ CallbackStart(p)
  \/ TokExchange(p)
  \/ TokVerify(p)
  \/ TokRespond(p)

\* ------------------------------------- the gated routes (auth_router.go)
\* the routes with /auth/user registered without the JwtVerify wrapper
GatedURLOnly(route) == route = "/auth/url"

\* HandlerFunc(a.JwtVerify(authHandler.GetURL)), ...(authHandler.FindCreateUser)
Gated(route) == route \in {"/auth/url", "/auth/user"}

\* the Access Gate: the credential verifies as an identity token does and its
\* claims decode; a failed key retrieval counts as a failed verification
JwtVerify(cred, keysOk) == cred.sig = "good" /\ keysOk /\ cred.wf

\* GetURL: a random state embedded in the consent URL, answered as JSON
GetURL(s) == Response("ok", "URL", NoToken, NilUser, {s}, {})

\* GET /auth/url and GET /auth/user: the gate, then the handler up to its
\* first database call
Protected(p) ==
  /\ pc[p] = "idle"
  /\ \E route \in {"/auth/url", "/auth/user"}, cred \in Tokens \cup {NoToken},
        keysOk \in BOOLEAN, s \in StateVals :
       LET gate == IF Gated(route) THEN <<"JwtVerify">> ELSE <<>> IN
       /\ req' = [req EXCEPT ![p] = [NoReq EXCEPT !.route = route, !.cred = cred]]
       /\ IF Gated(route) /\ ~JwtVerify(cred, keysOk)
            THEN /\ steps' = [steps EXCEPT ![p] = @ \o gate]
                 /\ Respond(p, respondUnauthorized)
                 /\ Goto(p, "done")
                 /\ UNCHANGED loc
            ELSE IF route = "/auth/url"
              THEN /\ steps' = [steps EXCEPT ![p] = @ \o gate \o <<"GetURL">>]
                   /\ Respond(p, GetURL(s))
                   /\ Goto(p, "done")
                   /\ UNCHANGED loc
              ELSE /\ steps' = [steps EXCEPT ![p] = @ \o gate \o <<"FindCreateUser">>]
                   /\ loc' = [loc EXCEPT ![p] = [@ EXCEPT !.claims = cred]]
                   /\ Goto(p, "begin")
                   /\ UNCHANGED resp
  /\ UNCHANGED <<users, nextId, cookie, lastLogin, issued, cancelled, wrote>>

\* FindCreateUser after the find-or-create: the resolved User Identity, or
\* an error when the directory failed
FindCreateUserRespond(p) ==
  /\ pc[p] = "respond"
  /\ req[p].route = "/auth/user"
  /\ Respond(p, IF loc[p].err # "nil"
                  THEN respondInternalError
                  ELSE Response("ok", "User", NoToken, loc[p].user, {}, {}))
  /\ Goto(p, "done")
  /\ UNCHANGED <<users, nextId, cookie, lastLogin, issued, req, loc, steps, cancelled, wrote>>

\* ------------------------------------------------------ the whole system
Next ==
  \/ \E b \in Browsers : Login(b)
  \/ \E p \in Procs : Token(p)
  \/ \E p \in Procs : Protected(p)
  \/ \E p \in Procs : FindCreateUserRespond(p)
  \/ \E p \in Procs : FindOrCreateUser(p)
  \/ \E p \in Procs : Cancel(p)

Spec == Init /\ [][Next]_vars

\* ================================================================ claims
IsCallback(p) == req[p].route = "/auth/google/callback"
Has(p, name) == \E i \in DOMAIN steps[p] : steps[p][i] = name
TokenIssued(p) == \E i \in DOMAIN resp[p] : resp[p][i].kind = "Token"
Rejected(p) == resp[p] = <<respondInternalError>> \/ resp[p] = <<respondUnauthorized>>
\* the state of the query is the one issued to the browser that sends it
StateMatches(r) == r.qstate # {} /\ r.qstate = r.cookie
\* FindOrCreateUser was called by p and has returned
Returned(p) == Has(p, "FindOrCreateUser") /\ pc[p] \in {"respond", "done"}
RowsOf(email) == {r \in users : r.email = email}

\* C1: a callback whose state query value differs from the oauthstate cookie
\* of its browser (a missing state or a missing cookie included) is rejected
\* as unauthorized: no code exchange is started for it, it writes no user
\* record and no Token is returned.
C1_MismatchRejected ==
  \A p \in Procs :
    (IsCallback(p) /\ ~StateMatches(req[p])) =>
      /\ ~Has(p, "Exchange")
      /\ wrote[p] = {}
      /\ ~TokenIssued(p)
      /\ pc[p] = "done" => resp[p] = <<respondUnauthorized>>

C3_LoserReturnsWinner ==
  \A p, q \in Procs :
    (/\ Returned(p) /\ Returned(q)
     /\ loc[p].claims.email = loc[q].claims.email
     /\ loc[p].err # "canceled" /\ loc[q].err # "canceled")
      => /\ loc[p].err = "nil" /\ loc[p].user # NilUser
         /\ loc[p].user.id = loc[q].user.id

\* C4: first write wins.  A FindOrCreateUser call for an email that has a
\* stored record leaves that record as it is (id, name and subject are not
\* overwritten by the incoming values), adds no row, and returns that record
\* unless its context is cancelled; any two calls that return a user for the
\* same email return the same id.
C4_FirstWriteWins ==
  /\ \A p \in Procs :
       (Has(p, "FindOrCreateUser") /\ loc[p].existed # NilUser) =>
         /\ loc[p].existed \in users
         /\ RowsOf(loc[p].existed.email) = {loc[p].existed}
         /\ wrote[p] = {} /\ loc[p].pending = NilUser
         /\ Returned(p) => loc[p].err \in {"nil", "canceled"}
         /\ (Returned(p) /\ loc[p].err = "nil") => loc[p].user = Scanned(loc[p].existed)
  /\ \A p, q \in Procs :
       (/\ Returned(p) /\ Returned(q)
        /\ loc[p].err = "nil" /\ loc[q].err = "nil"
        /\ loc[p].claims.email = loc[q].claims.email)
         => loc[p].user.id = loc[q].user.id

\* a call found the record of an earlier login whose name differs from the
\* incoming one, and has returned it
C4_Witness ==
  \E p \in Procs :
    /\ Returned(p) /\ loc[p].err = "nil"
    /\ loc[p].existed # NilUser
    /\ loc[p].claims.name # loc[p].existed.name
    /\ loc[p].claims.sub # loc[p].existed.sub

\* C5: the Access Gate fails closed.  On /auth/url and /auth/user the handler
\* behind the gate is invoked only after JwtVerify and only for a credential
\* that verifies; whenever verification fails, a failed key retrieval
\* included, the one response is unauthorized, the handler is not invoked and
\* the request opens no transaction and writes no user.
C5_GateFailsClosed ==
  \A p \in Procs :
    req[p].route \in {"/auth/url", "/auth/user"} =>
      LET valid == req[p].cred.sig = "good" /\ req[p].cred.wf
          invoked == Has(p, "GetURL") \/ Has(p, "FindCreateUser") IN
      /\ invoked => (valid /\ steps[p][1] = "JwtVerify")
      /\ ~valid => ~invoked
      /\ ~invoked => /\ steps[p] = <<"JwtVerify">>
                     /\ pc[p] = "done"
                     /\ resp[p] = <<respondUnauthorized>>
                     /\ loc[p] = NoLocal
                     /\ wrote[p] = {}

\* a request to /auth/user whose credential is sound was turned away because
\* the signing keys could not be obtained, while another request with a bad
\* credential was turned away too
C5_Witness ==
  \E p, q \in Procs :
    /\ req[p].route = "/auth/user" /\ req[p].cred.sig = "good" /\ req[p].cred.wf
    /\ resp[p] = <<respondUnauthorized>>
    /\ req[q].route = "/auth/user" /\ req[q].cred.sig = "bad"
    /\ resp[q] = <<respondUnauthorized>>

\* the order of the steps of one callback attempt
StepOrder == <<"StateCheck", "Exchange", "Extra", "Verify", "Claims", "FindOrCreateUser">>

\* C6: within one callback the steps run in the order state check, code
\* exchange, id_token extraction, verification, claim decoding,
\* FindOrCreateUser, none skipped; a Token is returned only after
\* FindOrCreateUser returned without error, and it is the token verified in
\* that attempt.
C6_StepsInOrder ==
  \A p \in Procs :
    IsCallback(p) =>
      LET mine == SelectSeq(steps[p], LAMBDA x : \E i \in DOMAIN StepOrder : StepOrder[i] = x) IN
      /\ mine = SubSeq(StepOrder, 1, Len(mine))
      /\ TokenIssued(p) =>
           /\ Returned(p) /\ loc[p].err = "nil"
           /\ resp[p] = <<Response("ok", "Token", loc[p].claims, NilUser, {}, {})>>

\* the steps an attempt has made when it stops at each of its calls
TExchange == <<"Token", "Exchange">>
TExtra == TExchange \o <<"Extra">>
TVerify == TExtra \o <<"Verify">>
TClaims == TVerify \o <<"Claims">>
TBegin == TClaims \o <<"FindOrCreateUser", "BeginTxx">>
TxCalls == <<"Select", "Insert", "Reselect", "Commit">>
TResolve == {TBegin \o SubSeq(TxCalls, 1, n) : n \in 0..Len(TxCalls)}

\* C7: every failure of a callback step ends the attempt.  An attempt answers
\* at most once, and only when it is over; an error answer carries no Token
\* and the steps made stop at the step that failed; a request whose code,
\* id_token, signature or claims are bad never gets past the step that
\* rejects them; an error from FindOrCreateUser yields no Token; an attempt
\* that has not reached FindOrCreateUser has opened no transaction and
\* written no user.
C7_FailureIsTerminal ==
  \A p \in Procs :
    IsCallback(p) =>
      /\ Len(resp[p]) <= 1
      /\ (resp[p] # <<>>) <=> (pc[p] = "done")
      /\ (resp[p] # <<>> /\ resp[p][1].kind = "Error") =>
           /\ resp[p] = <<respondInternalError>>
           /\ steps[p] \in {TExchange, TExtra, TVerify, TClaims} \cup TResolve
           /\ Has(p, "FindOrCreateUser") => loc[p].err # "nil"
      /\ req[p].code = "" => steps[p] \in {<<"Token">>, TExchange}
      /\ (Has(p, "Extra") /\ loc[p].raw = NoToken) => (steps[p] = TExtra /\ pc[p] = "done")
      /\ loc[p].raw.sig = "bad" => steps[p] \in {TExtra, TVerify}
      /\ (loc[p].raw # NoToken /\ ~loc[p].raw.wf) => steps[p] \in {TExtra, TVerify, TClaims}
      /\ (Returned(p) /\ loc[p].err # "nil") => ~TokenIssued(p)
      /\ (pc[p] = "done" /\ ~TokenIssued(p)) => resp[p] = <<respondInternalError>>
      /\ ~Has(p, "FindOrCreateUser") =>
           (wrote[p] = {} /\ ~loc[p].txOpen /\ loc[p].pending = NilUser)

\* one attempt failed on a token whose claims do not decode, another on an
\* error of FindOrCreateUser; both were answered with the internal error
C7_Witness ==
  \E p, q \in Procs :
    /\ IsCallback(p) /\ steps[p] = TClaims /\ resp[p] = <<respondInternalError>>
    /\ IsCallback(q) /\ Returned(q) /\ loc[q].err # "nil"
    /\ resp[q] = <<respondInternalError>>

\* C8: every callback attempt reaches a terminal outcome: the attempts in
\* flight can always take a step, and an attempt that arrived without a code,
\* without a state or without the state cookie ends in a rejection.
C8_MissingParamsRejected ==
  /\ (\E p \in Procs : IsCallback(p) /\ pc[p] # "done")
       => ENABLED (\E p \in Procs : Token(p) \/ FindOrCreateUser(p))
  /\ \A p \in Procs :
       (/\ IsCallback(p) /\ pc[p] = "done"
        /\ (req[p].code = "" \/ req[p].qstate = {} \/ req[p].cookie = {}))
         => Rejected(p)

\* C9: an issued state is accepted by at most one callback: of two callbacks
\* that present the same state with the matching cookie, at most one gets as
\* far as the code exchange.
C9_StateSingleUse ==
  \A p, q \in Procs :
    (/\ p # q /\ IsCallback(p) /\ IsCallback(q)
     /\ StateMatches(req[p]) /\ StateMatches(req[q])
     /\ req[p].qstate = req[q].qstate)
      => ~(Has(p, "Exchange") /\ Has(q, "Exchange"))

\* C10: once the request context of a callback is cancelled the attempt
\* aborts: every further step it takes ends it with an error (no further
\* call is started, FindOrCreateUser returns an error), it has committed no
\* user record and it returns no Token.
C10_CancelAborts ==
  [][\A p \in Procs :
       (IsCallback(p) /\ cancelled[p] /\ pc'[p] # pc[p]) =>
         /\ pc'[p] \in {"respond", "done"}
         /\ pc'[p] = "respond" => loc'[p].err # "nil"
         /\ wrote'[p] = {}
         /\ \A i \in DOMAIN resp'[p] : resp'[p][i].kind # "Token"]_vars

\* ------------------------------------------------------------- fairness
\* net/http runs every handler to its end: a handler that can take its next
\* step takes it
FairSpec ==
  /\ Spec
  /\ \A p \in Procs : WF_vars(TokExchange(p) \/ TokVerify(p) \/ TokRespond(p)
                              \/ FindOrCreateUser(p) \/ FindCreateUserRespond(p))

\* every callback received is answered
CallbackAnswered == \A p \in Procs : (pc[p] = "exchange") ~> (pc[p] = "done")

\* C13: FindOrCreateUser attempts the INSERT only when the lookup by email
\* reported that no row exists; a lookup that failed for another reason
\* (a cancelled context) is never followed by an INSERT.
C13_InsertOnlyAfterNoRows ==
  \A p \in Procs : pc[p] = "insert" => loc[p].err = "norows"

IsUserRoute(p) == req[p].route = "/auth/user"

\* how many times the name occurs among the calls the request has made
Count(p, name) == Cardinality({i \in 1..Len(steps[p]) : steps[p][i] = name})

AllFresh == \A i, j \in 1..Len(issued) : i # j => issued[i] # issued[j]

\* the Login responses carry one state value, in the cookie and in the URL
OneStatePerLogin ==
  \A b \in Browsers :
    lastLogin[b] # NoResponse =>
      /\ lastLogin[b].status = "redirect" /\ lastLogin[b].kind = "URL"
      /\ Cardinality(lastLogin[b].state) = 1
      /\ lastLogin[b].setCookie = lastLogin[b].state
      /\ \E i \in 1..Len(issued) : lastLogin[b].state = {issued[i]}

TxWritePath == <<"BeginTxx", "Select", "Insert", "Reselect", "Commit">>

\* what p has called since it entered FindOrCreateUser
FocuCalls(p) ==
  LET i == CHOOSE k \in 1..Len(steps[p]) : steps[p][k] = "FindOrCreateUser" IN
    SubSeq(steps[p], i + 1, Len(steps[p]))

\* C15: a transaction of FindOrCreateUser is open only while the call runs:
\* once the call has returned, on any path, it is closed and holds no pending
\* write; the call commits a row only on the path that inserted it and read it
\* back, returning a nil error; a call that returned an error has written
\* nothing to the committed table.
C15_TxClosedNoPartialWrite ==
  \A p \in Procs :
    /\ (loc[p].txOpen \/ loc[p].pending # NilUser) =>
         (Has(p, "FindOrCreateUser") /\ pc[p] \in {"select", "insert", "reselect", "commit"})
    /\ Returned(p) => (~loc[p].txOpen /\ loc[p].pending = NilUser)
    /\ wrote[p] # {} =>
         /\ FocuCalls(p) = TxWritePath
         /\ Returned(p) /\ loc[p].err = "nil"
         /\ wrote[p] \subseteq users
         /\ \A r \in wrote[p] : Scanned(r) = loc[p].user
    /\ (Returned(p) /\ FocuCalls(p) # TxWritePath) => wrote[p] = {}
    /\ (Returned(p) /\ loc[p].err # "nil") => wrote[p] = {}

\* one call gave up with an error after its INSERT, its row rolled back, and
\* another call has committed
C15_Witness ==
  \E p, q \in Procs :
    /\ p # q /\ Returned(p) /\ Returned(q)
    /\ Has(p, "Reselect") /\ loc[p].err = "canceled" /\ wrote[p] = {}
    /\ wrote[q] # {} /\ loc[q].err = "nil"

====
